---- MODULE Spec2Model ----
(***************************************************************************)
(* A model of the ABOM container (src/src/abom.py), its compressed Bloom  *)
(* filters (src/src/bloom_filter.py) and its codec.                        *)
(*                                                                         *)
(* Filter objects live in a heap and a container holds references to them, *)
(* as in Python: ABOM.union appends the source's filter objects themselves.*)
(* The filter size is scaled down (m = 2^IdxBits, f = 1/2^FShift); the     *)
(* number of probes k is the program's.                                    *)
(***************************************************************************)
EXTENDS Integers, Sequences, FiniteSets, TLC

\* ------------------------------------------------------------- bounds
\* idx_bits of the default container: m = 2^IdxBits (the program: 18).
IdxBits == 3
\* f = 1/(1 << FShift) (the program: 14).
FShift == 2
\* A container holds at most this many filters in the model.
MaxFilters == 2

\* ------------------------------------------------- program constants
\* ABOM.m, scaled.
m == 2 ^ IdxBits
\* ABOM.k
k == 2
\* ABOM.f as the fraction F_NUM / F_DEN.
F_NUM == 1
F_DEN == 2 ^ FShift
\* ABOM.CDF_BITS, ABOM.CDF_MAX
CDF_BITS == 16
CDF_MAX == 2 ^ CDF_BITS

\* ------------------------------------------------------------ helpers
RECURSIVE SumSeq(_)
SumSeq(s) == IF s = <<>> THEN 0 ELSE Head(s) + SumSeq(Tail(s))

RECURSIVE Flatten(_)
Flatten(ss) == IF ss = <<>> THEN <<>> ELSE Head(ss) \o Flatten(Tail(ss))

Range(s) == {s[i] : i \in 1..Len(s)}

\* ------------------------------------------------------- query inputs
\* A text is a sequence of characters: 0..15 are the hex digits, NonHex is
\* a character that is no hex digit ('g'). A bytes value is a sequence of
\* 0..255.
NonHex == 16
Str(v) == [t |-> "str", v |-> v]
Bytes(v) == [t |-> "bytes", v |-> v]

\* "a71c", "2c6b", "1c6b", "" (too short: rehashed), b"\xa7\x1c"
ValidInputs ==
  { Str(<<10, 7, 1, 12>>), Str(<<2, 12, 6, 11>>), Str(<<1, 12, 6, 11>>),
    Str(<<>>), Bytes(<<167, 28>>) }
\* "a71" (odd length), "g71c" (a non-hex character)
MalformedInputs == { Str(<<10, 7, 1>>), Str(<<NonHex, 7, 1, 12>>) }
Inputs == ValidInputs \cup MalformedInputs

\* A lenient decoder, for comparison: it drops what it cannot decode (a trailing odd
\* digit, non-hex characters) instead of raising.
FromHexLenient(t) ==
  [ok |-> TRUE,
   bytes |-> [i \in 1..(Len(SelectSeq(t, LAMBDA d : d \in 0..15)) \div 2) |->
                16 * SelectSeq(t, LAMBDA d : d \in 0..15)[2 * i - 1]
                   + SelectSeq(t, LAMBDA d : d \in 0..15)[2 * i]]]

\* bytes.fromhex: ValueError for an odd number of digits or a non-hex character.
FromHex(t) ==
  IF Len(t) % 2 = 1 \/ \E i \in 1..Len(t) : t[i] \notin 0..15
  THEN [ok |-> FALSE, bytes |-> <<>>]
  ELSE [ok |-> TRUE,
        bytes |-> [i \in 1..(Len(t) \div 2) |-> 16 * t[2 * i - 1] + t[2 * i]]]

\* bitarray.frombytes on a big-endian bitarray: each byte most significant bit first.
BitsOfByte(b) == [i \in 1..8 |-> (b \div (2 ^ (8 - i))) % 2]
BitsOfBytes(bs) == Flatten([i \in 1..Len(bs) |-> BitsOfByte(bs[i])])

\* bitarray.util.ba2int of a big-endian bitarray.
RECURSIVE ba2int(_)
ba2int(b) == IF b = <<>> THEN 0 ELSE 2 * ba2int(SubSeq(b, 1, Len(b) - 1)) + b[Len(b)]

\* hashlib.sha3_256(x).digest(): the first two bytes of the real digests of the
\* byte strings the model rehashes (those shorter than k*idx_bits bits).
sha3_256(x) ==
  CASE x = <<>> -> <<167, 255>>
    [] x = <<167>> -> <<108, 91>>
    [] x = <<167, 28>> -> <<124, 182>>
    [] x = <<44, 107>> -> <<65, 216>>
    [] x = <<28, 107>> -> <<16, 19>>
    [] OTHER -> <<0, 0>>

\* ------------------------------------------------ CompressedBloomFilter
IsPow2(n) == n > 0 /\ \E e \in 0..30 : n = 2 ^ e
BitLength(n) == CHOOSE e \in 0..31 : (n < 2 ^ e) /\ (e = 0 \/ n >= 2 ^ (e - 1))

\* CompressedBloomFilter.__init__ with A omitted: m zero bits.
NewCBF(mm, kk) ==
  [m |-> mm, idx_bits |-> BitLength(mm) - 1, k |-> kk,
   A |-> [i \in 1..mm |-> 0], prehashed |-> TRUE]

\* CompressedBloomFilter.__init__ with a supplied array A, adopted as it is.
NewCBFWith(mm, kk, A) ==
  [m |-> mm, idx_bits |-> BitLength(mm) - 1, k |-> kk, A |-> A, prehashed |-> TRUE]

Count(A) == SumSeq(A)

\* Probes taken from the last k*idx_bits bits of b, for comparison.
CBFProbesTrailing(bf, b) ==
  [i \in 1..bf.k |-> ba2int(SubSeq(b, Len(b) - (bf.k - i + 1) * bf.idx_bits + 1,
                                     Len(b) - (bf.k - i) * bf.idx_bits))]

\* CompressedBloomFilter.__hash on the bytes x: the k probes, each the big-endian value
\* of idx_bits consecutive bits of b.
CBFProbes(bf, b) ==
  [i \in 1..bf.k |-> ba2int(SubSeq(b, (i - 1) * bf.idx_bits + 1, i * bf.idx_bits))]

\* b.frombytes(x) when prehashed; while len(b) < k*idx_bits: x = sha3_256(x).digest();
\* b.frombytes(x). One digest supplies 256 bits, so the loop runs at most once.
CBFHashBits(bf, x, b0) ==
  IF Len(b0) < bf.k * bf.idx_bits THEN b0 \o BitsOfBytes(sha3_256(x)) ELSE b0

CBFHashExpand(bf, x) ==
  CBFProbes(bf, CBFHashBits(bf, x, IF bf.prehashed THEN BitsOfBytes(x) ELSE <<>>))

\* CompressedBloomFilter.__hash: [ok, h]; ok is FALSE when bytes.fromhex raises ValueError.
CBFHashText(bf, d) ==
  IF d.ok THEN [ok |-> TRUE, h |-> CBFHashExpand(bf, d.bytes)]
          ELSE [ok |-> FALSE, h |-> <<>>]

CBFHash(bf, x) ==
  IF x.t = "str"
  THEN IF bf.prehashed THEN CBFHashText(bf, FromHex(x.v))
                       ELSE [ok |-> TRUE, h |-> CBFHashExpand(bf, x.v)]
  ELSE [ok |-> TRUE, h |-> CBFHashExpand(bf, x.v)]

\* An insert that sets the bit of the first probe only, for comparison.
CBFSetBitsFirstProbe(bf, h) ==
  [bf EXCEPT !.A = [j \in 1..Len(bf.A) |-> IF j - 1 = h[1] THEN 1 ELSE bf.A[j]]]

\* A union that overwrites the bits with the other filter's, for comparison.
CBFOrOverwrite(bf, other) == [bf EXCEPT !.A = other.A]

\* CompressedBloomFilter.insert, given the probes h: A[i] = 1 for every probe.
CBFSetBits(bf, h) ==
  [bf EXCEPT !.A = [j \in 1..Len(bf.A) |-> IF (j - 1) \in Range(h) THEN 1 ELSE bf.A[j]]]

\* CompressedBloomFilter.union on a clone of bf: A |= other.A.
CBFOr(bf, other) ==
  [bf EXCEPT !.A = [j \in 1..Len(bf.A) |-> IF other.A[j] = 1 THEN 1 ELSE bf.A[j]]]

\* CompressedBloomFilter.contains: False when __hash raises ValueError, else whether
\* every probed bit is set.
CBFContainsProbes(bf, r) ==
  IF ~r.ok THEN FALSE ELSE \A i \in 1..Len(r.h) : bf.A[r.h[i] + 1] = 1

CBFContains(bf, x) == CBFContainsProbes(bf, CBFHash(bf, x))

\* A filter that admits while it has a zero bit, for comparison.
FprBelowOne(bf) == Count(bf.A) < bf.m

\* ~bf < f, with false_positive_rate = (count/m)^k: count^k * F_DEN < F_NUM * m^k.
FprBelow(bf) == (Count(bf.A) ^ bf.k) * F_DEN < F_NUM * (bf.m ^ bf.k)
\* ~bf <= f
FprAtMost(bf) == (Count(bf.A) ^ bf.k) * F_DEN <= F_NUM * (bf.m ^ bf.k)


\* -------------------------------------------------------------- codec
\* 2^16: MAX_INT = 2^32 - 1 is handled as two 16-bit halves (hi, lo).
HALF_WORD == 2 ^ 16

\* int(p_1 * MAX_INT) with p_1 = ones / total: floor(ones * (2^32 - 1) / total), by long
\* division of (ones - 1) * 2^32 + 65535 * 2^16 + (65536 - ones) in base 2^16.
P1QuantizedLo(ones, total, hi, r1) ==
  [hi |-> hi, lo |-> (r1 * HALF_WORD + HALF_WORD - ones) \div total]
P1QuantizedHi(ones, total, t1) == P1QuantizedLo(ones, total, t1 \div total, t1 % total)
P1Quantized(ones, total) ==
  IF ones = 0 THEN [hi |-> 0, lo |-> 0]
  ELSE P1QuantizedHi(ones, total, (((ones - 1) % total) * HALF_WORD) + (HALF_WORD - 1))

\* dump: cdf[1] = int((1 - p_1) * CDF_MAX) with p_1 = ones / total.
CdfOfDensity(ones, total) == (CDF_MAX * (total - ones)) \div total

\* load: cdf[1] = int((1 - p_1) * CDF_MAX) with p_1 = q / MAX_INT, q the header's field:
\* floor(2^16 * (MAX_INT - q) / MAX_INT), which is the high half of MAX_INT - q unless q = 0.
CdfOfField(q) ==
  IF q.hi = 0 /\ q.lo = 0 THEN CDF_MAX ELSE (HALF_WORD - 1) - q.hi

\* struct.pack('<H', v), struct.pack('<I', v) for v < 2^31, and '<I' of a (hi, lo) pair.
PackH(v) == <<v % 256, (v \div 256) % 256>>
PackI(v) == <<v % 256, (v \div 256) % 256, (v \div 65536) % 256, (v \div 16777216) % 256>>
PackIHalves(q) == PackH(q.lo) \o PackH(q.hi)
\* struct.unpack of the same.
UnpackH(b) == b[1] + 256 * b[2]
UnpackI(b) == b[1] + 256 * b[2] + 65536 * b[3] + 16777216 * b[4]
\* The 32-bit field read big-endian, for comparison.
UnpackIHalvesBigEndian(b) == [lo |-> b[4] + 256 * b[3], hi |-> b[2] + 256 * b[1]]
UnpackIHalves(b) == [lo |-> b[1] + 256 * b[2], hi |-> b[3] + 256 * b[4]]

\* b'ABOM'
MAGIC == <<65, 66, 79, 77>>
\* the protocol version byte
VERSION == 1

\* The arithmetic coder (yaecl's ac_encoder_t / ac_decoder_t, an external library): a
\* binary arithmetic coder over the three-entry CDF [0, c1, CDF_MAX], with a state of
\* CDF_BITS + 2 bits, carry-less renormalisation and a one-bit flush.
STATE_BITS == CDF_BITS + 2
FULL == 2 ^ STATE_BITS
HALF == FULL \div 2
QUARTER == HALF \div 2

\* floor(r * c / CDF_MAX) without leaving 31 bits.
MulShift(r, c) == (r * (c \div 256) + (r * (c % 256)) \div 256) \div 256

CdfLow(c1, sym) == IF sym = 0 THEN 0 ELSE c1
CdfHigh(c1, sym) == IF sym = 0 THEN c1 ELSE CDF_MAX

RECURSIVE EncNorm(_)
EncNorm(st) ==
  IF (st.low >= HALF) = (st.high >= HALF)
  THEN EncNorm([low |-> (st.low * 2) % FULL, high |-> ((st.high * 2) % FULL) + 1,
                pend |-> 0, n |-> st.n,
                out |-> st.out \o <<IF st.low >= HALF THEN 1 ELSE 0>>
                        \o [j \in 1..st.pend |-> IF st.low >= HALF THEN 0 ELSE 1]])
  ELSE IF st.low >= QUARTER /\ st.high < 3 * QUARTER
  THEN EncNorm([low |-> (st.low - QUARTER) * 2, high |-> (st.high - QUARTER) * 2 + 1,
                pend |-> st.pend + 1, n |-> st.n, out |-> st.out])
  ELSE st

EncStep(st, c1, sym, r) ==
  EncNorm([low |-> st.low + MulShift(r, CdfLow(c1, sym)),
           high |-> st.low + MulShift(r, CdfHigh(c1, sym)) - 1,
           pend |-> st.pend, n |-> st.n + 1, out |-> st.out])

\* The symbols are coded in order; st.n counts those coded so far.
RECURSIVE EncSyms(_, _, _)
EncSyms(syms, c1, st) ==
  IF st.n = Len(syms) THEN st
  ELSE EncSyms(syms, c1, EncStep(st, c1, syms[st.n + 1], st.high - st.low + 1))

\* ac_enc.encode_nx1(symbols, cdf, CDF_BITS); ac_enc.flush(): the coder's bits.
EncodeBits(syms, c1) ==
  Append(EncSyms(syms, c1, [low |-> 0, high |-> FULL - 1, pend |-> 0, n |-> 0,
                            out |-> <<>>]).out, 1)

\* ac_enc.bit_stream.data: the bits packed into bytes, first bit lowest, zero padded.
BitAt(bits, i) == IF i <= Len(bits) THEN bits[i] ELSE 0
BytesOfBits(bits) ==
  [j \in 1..((Len(bits) + 7) \div 8) |->
     BitAt(bits, 8 * j - 7) + 2 * BitAt(bits, 8 * j - 6) + 4 * BitAt(bits, 8 * j - 5)
     + 8 * BitAt(bits, 8 * j - 4) + 16 * BitAt(bits, 8 * j - 3) + 32 * BitAt(bits, 8 * j - 2)
     + 64 * BitAt(bits, 8 * j - 1) + 128 * BitAt(bits, 8 * j)]
BitsOfStream(bs) ==
  [i \in 1..(8 * Len(bs)) |-> (bs[(i + 7) \div 8] \div (2 ^ ((i - 1) % 8))) % 2]

RECURSIVE DecNorm(_, _)
DecNorm(bits, st) ==
  IF (st.low >= HALF) = (st.high >= HALF)
  THEN DecNorm(bits, [low |-> (st.low * 2) % FULL, high |-> ((st.high * 2) % FULL) + 1,
                      code |-> ((st.code * 2) % FULL) + BitAt(bits, st.pos),
                      pos |-> st.pos + 1, out |-> st.out])
  ELSE IF st.low >= QUARTER /\ st.high < 3 * QUARTER
  THEN DecNorm(bits, [low |-> (st.low - QUARTER) * 2, high |-> (st.high - QUARTER) * 2 + 1,
                      code |-> (st.code - QUARTER) * 2 + BitAt(bits, st.pos),
                      pos |-> st.pos + 1, out |-> st.out])
  ELSE st

DecStep(bits, st, c1, sym, r) ==
  DecNorm(bits, [low |-> st.low + MulShift(r, CdfLow(c1, sym)),
                 high |-> st.low + MulShift(r, CdfHigh(c1, sym)) - 1,
                 code |-> st.code, pos |-> st.pos, out |-> Append(st.out, sym)])

DecSym(st, c1, r) == IF st.code < st.low + MulShift(r, c1) THEN 0 ELSE 1

RECURSIVE DecSyms(_, _, _, _)
DecSyms(bits, n, c1, st) ==
  IF Len(st.out) = n THEN st
  ELSE DecSyms(bits, n, c1,
               DecStep(bits, st, c1, DecSym(st, c1, st.high - st.low + 1),
                       st.high - st.low + 1))

\* ac_dec.decode_nx1(2, cdf, CDF_BITS, out) on the stream bytes bs: n symbols.
DecodeSyms(bs, n, c1) ==
  DecSyms(BitsOfStream(bs), n, c1,
          [low |-> 0, high |-> FULL - 1,
           code |-> ba2int([i \in 1..STATE_BITS |-> BitAt(BitsOfStream(bs), i)]),
           pos |-> STATE_BITS + 1, out |-> <<>>]).out


\* -------------------------------------------------------------- state
\* The two containers a build works on; "R" names the container load returns.
Aboms == {"P", "Q"}

\* The (m, k) a container can be given: the class's own, a larger table, one more probe.
DefaultTuple == [m |-> m, k |-> k]
Tuples == {DefaultTuple, [m |-> 2 * m, k |-> k], [m |-> m, k |-> k + 1]}

VARIABLES
  heap,      \* the CompressedBloomFilter objects, by reference
  bfs,       \* bfs[a]: the container's list of references into heap
  cfg,       \* cfg[a]: the container's (m, k)
  pc,        \* "build": containers are filled; "dumped": one was written; "loaded": read back
  file,      \* the bytes dump wrote
  src,       \* the container dump wrote
  loaded,    \* what load made of file: [err, bfs], bfs the new container's filter objects
  last,      \* the last operation, its operands and its outcome
  it,        \* the union in progress, when its loop is followed step by step
  fs,        \* the files abom-check is given: the binary's ABOM section and <binary>.abom
  hb         \* the bit array hash or hash_bits returned

vars == <<heap, bfs, cfg, pc, file, src, loaded, last, it, fs, hb>>

\* A file: whether it exists, and its bytes.
NoFiles == [section |-> [exists |-> FALSE, data |-> <<>>],
            sidecar |-> [exists |-> FALSE, data |-> <<>>]]

NoInput == Str(<<NonHex>>)
\* No union is in progress.
NoIter == [a |-> "P", b |-> "P", pos |-> 0, n0 |-> 0, d0 |-> 0]
Op(op, a, b, x, err, ret, oldLen) ==
  [op |-> op, a |-> a, b |-> b, x |-> x, err |-> err, ret |-> ret, oldLen |-> oldLen]

\* ABOM.__init__: bfs = []. P has the class's (m, k); Q any of the tuples.
Init ==
  /\ heap = <<>>
  /\ bfs = [a \in Aboms |-> <<>>]
  /\ cfg \in {c \in [Aboms -> Tuples] : c["P"] = DefaultTuple}
  /\ pc = "build"
  /\ file = <<>>
  /\ src = "P"
  /\ loaded = [err |-> "none", bfs |-> <<>>]
  /\ last = Op("init", "P", "P", NoInput, "ok", FALSE, 0)
  /\ it = NoIter
  /\ fs = NoFiles
  /\ hb = <<>>

\* Object identity up to renaming: the referenced objects, numbered in the order
\* in which P's list and then Q's list reach them; unreferenced objects are dropped.
RECURSIVE Dedup(_)
Dedup(s) ==
  IF s = <<>> THEN <<>>
  ELSE IF s[Len(s)] \in Range(SubSeq(s, 1, Len(s) - 1))
  THEN Dedup(SubSeq(s, 1, Len(s) - 1))
  ELSE Append(Dedup(SubSeq(s, 1, Len(s) - 1)), s[Len(s)])

Pos(order, id) == CHOOSE i \in 1..Len(order) : order[i] = id
CanonOrder(h, b, order) ==
  [heap |-> [i \in 1..Len(order) |-> h[order[i]]],
   bfs |-> [a \in Aboms |-> [j \in 1..Len(b[a]) |-> Pos(order, b[a][j])]]]
Canon(h, b) == CanonOrder(h, b, Dedup(b["P"] \o b["Q"]))

\* The bit arrays of a container, in order.
Arrays(h, l) == [j \in 1..Len(l) |-> h[l[j]].A]
\* The references 1..n of a list of n objects held by value.
Refs(objs) == [j \in 1..Len(objs) |-> j]

\* The references of n objects placed after those of h.
NewRefs(h, n) == [j \in 1..n |-> Len(h) + j]

\* --------------------------------------------------------------- ABOM
\* The last filter with ~bf < f, for comparison.
LastBelow(h, l) ==
  IF \E i \in 1..Len(l) : FprBelow(h[l[i]])
  THEN CHOOSE i \in 1..Len(l) : FprBelow(h[l[i]]) /\ \A j \in (i + 1)..Len(l) : ~FprBelow(h[l[j]])
  ELSE 0

\* The first filter, in order, with ~bf < f; 0 when there is none.
FirstBelow(h, l) ==
  IF \E i \in 1..Len(l) : FprBelow(h[l[i]])
  THEN CHOOSE i \in 1..Len(l) : FprBelow(h[l[i]]) /\ \A j \in 1..(i - 1) : ~FprBelow(h[l[j]])
  ELSE 0

\* bf += x on the object at reference id: the bits are set unless __hash raises.
InsertAt(h, l, id, r) ==
  IF r.ok
  THEN [heap |-> [h EXCEPT ![id] = CBFSetBits(@, r.h)], list |-> l, err |-> "ok"]
  ELSE [heap |-> h, list |-> l, err |-> "ValueError"]

ABOMInsertAt(h, l, c, x, i) ==
  IF i > 0
  THEN InsertAt(h, l, l[i], CBFHash(h[l[i]], x))
  ELSE \* self.bfs.append(CompressedBloomFilter(m, k)); self.bfs[-1] += x
       InsertAt(Append(h, NewCBF(c.m, c.k)), Append(l, Len(h) + 1), Len(h) + 1,
                CBFHash(NewCBF(c.m, c.k), x))

\* ABOM.insert on the list l of a container with tuple c: [heap, list, err].
ABOMInsert(h, l, c, x) == ABOMInsertAt(h, l, c, x, FirstBelow(h, l))

\* A placement that accepts a slot on its current FPR, not on the tentative union's, for
\* comparison.
UnionAcceptingCurrent(h, dl, bf) == {i \in 1..Len(dl) : FprBelow(h[dl[i]])}

\* self.bfs[i] | bf raises ValueError when the two filters differ in m or k.
UnionBad(h, dl, bf) == {i \in 1..Len(dl) : h[dl[i]].m # bf.m \/ h[dl[i]].k # bf.k}
\* The slots whose tentative union with bf has FPR < f.
UnionAccepting(h, dl, bf) ==
  {i \in 1..Len(dl) : i \notin UnionBad(h, dl, bf) /\ FprBelow(CBFOr(h[dl[i]], bf))}
\* A loop that stops at the last slot that raises or accepts, for comparison.
UnionStopLast(stops) ==
  IF stops = {} THEN 0 ELSE CHOOSE i \in stops : \A j \in stops : i >= j

\* The slot at which the inner loop stops: the first that raises or accepts; 0 if none.
UnionStop(stops) ==
  IF stops = {} THEN 0 ELSE CHOOSE i \in stops : \A j \in stops : i <= j

\* ABOM.union, the loop over the source's filters sl: each is OR-ed into the first
\* slot whose tentative union has FPR < f, else the source's object itself is appended.
RECURSIVE UnionLoop(_, _, _)
UnionPlace(h, dl, sl, bf, i) ==
  IF i = 0 THEN UnionLoop(h, Append(dl, Head(sl)), Tail(sl))
  ELSE IF i \in UnionBad(h, dl, bf) THEN [heap |-> h, list |-> dl, err |-> "ValueError"]
  ELSE UnionLoop(Append(h, CBFOr(h[dl[i]], bf)), [dl EXCEPT ![i] = Len(h) + 1], Tail(sl))

UnionLoop(h, dl, sl) ==
  IF sl = <<>> THEN [heap |-> h, list |-> dl, err |-> "ok"]
  ELSE UnionPlace(h, dl, sl, h[Head(sl)],
                  UnionStop(UnionBad(h, dl, h[Head(sl)]) \cup UnionAccepting(h, dl, h[Head(sl)])))

\* A union without the (m, k) check, for comparison.
ABOMUnionUnchecked(h, dl, dc, sl, sc) == UnionLoop(h, dl, sl)

ABOMUnion(h, dl, dc, sl, sc) ==
  IF dc.m # sc.m \/ dc.k # sc.k
  THEN [heap |-> h, list |-> dl, err |-> "AbomError"]
  ELSE UnionLoop(h, dl, sl)

\* ABOM.contains
ABOMContains(h, l, x) == \E i \in 1..Len(l) : CBFContains(h[l[i]], x)

\* A frame with the two 32-bit fields in the other order, for comparison.
DumpFrameSwapped(n, q, payload) ==
  MAGIC \o <<VERSION>> \o PackH(n) \o PackI(Len(payload)) \o PackIHalves(q) \o payload

\* ABOM.dump, the bytes written for the bit arrays As of n filters of a container with
\* tuple c: the 15-byte header, then the coder's bytes.
DumpFrame(n, q, payload) ==
  MAGIC \o <<VERSION>> \o PackH(n) \o PackIHalves(q) \o PackI(Len(payload)) \o payload
DumpBytes(As, c, ones, total) ==
  DumpFrame(Len(As), P1Quantized(ones, total),
            BytesOfBits(EncodeBits(Flatten(As), CdfOfDensity(ones, total))))
DumpArrays(As, c) == DumpBytes(As, c, SumSeq([j \in 1..Len(As) |-> Count(As[j])]), Len(As) * c.m)

\* ABOM.dump: an empty container first gets one empty filter. [heap, list, data]
ABOMDumpList(h, l, c) == [heap |-> h, list |-> l, data |-> DumpArrays(Arrays(h, l), c)]
\* A dump that appends an empty filter to every container, for comparison.
ABOMDumpAppending(h, l, c) ==
  ABOMDumpList(Append(h, NewCBF(c.m, c.k)), Append(l, Len(h) + 1), c)
ABOMDump(h, l, c) ==
  IF Len(l) = 0 THEN ABOMDumpList(Append(h, NewCBF(c.m, c.k)), <<Len(h) + 1>>, c)
  ELSE ABOMDumpList(h, l, c)

\* f.read(l) after the header: at most the bytes that are left.
ReadLen(b, avail) ==
  IF b[3] # 0 \/ b[4] # 0 \/ UnpackH(b) > avail THEN avail ELSE UnpackH(b)

\* A load that cuts the decoded symbols one position late, for comparison.
LoadFiltersShifted(n, blob) ==
  [err |-> "ok",
   bfs |-> [j \in 1..n |-> NewCBFWith(m, k, SubSeq(blob \o <<0>>, (j - 1) * m + 2, j * m + 1))]]

\* ABOM.load after the header: n * cls.m symbols are decoded and cut into n arrays of
\* cls.m bits, each adopted by a filter with the class's (m, k).
LoadFilters(n, blob) ==
  [err |-> "ok",
   bfs |-> [j \in 1..n |-> NewCBFWith(m, k, SubSeq(blob, (j - 1) * m + 1, j * m))]]
LoadBody(data, n, q, len) ==
  LoadFilters(n, DecodeSyms(SubSeq(data, 16, 15 + len), n * m, CdfOfField(q)))

\* f.read(n) at offset pos (1-based): the n bytes there, or as many as are left.
Read(data, pos, n) ==
  IF pos + n - 1 <= Len(data) THEN SubSeq(data, pos, pos + n - 1)
  ELSE IF pos <= Len(data) THEN SubSeq(data, pos, Len(data)) ELSE <<>>

\* A load without the version test, for comparison.
ABOMLoadAnyVersion(data) ==
  IF Read(data, 1, 4) # MAGIC THEN [err |-> "AbomError", bfs |-> <<>>]
  ELSE IF Len(data) < 15 THEN [err |-> "struct.error", bfs |-> <<>>]
  ELSE LoadBody(data, UnpackH(SubSeq(data, 6, 7)), UnpackIHalves(SubSeq(data, 8, 11)),
                ReadLen(SubSeq(data, 12, 15), Len(data) - 15))

\* ABOM.load on the bytes data: [err, bfs]. unpack('<HII', f.read(10)) raises
\* struct.error when fewer than 10 bytes are left.
ABOMLoad(data) ==
  IF Read(data, 1, 4) # MAGIC THEN [err |-> "AbomError", bfs |-> <<>>]
  ELSE IF Read(data, 5, 1) # <<VERSION>> THEN [err |-> "AbomError", bfs |-> <<>>]
  ELSE IF Len(Read(data, 6, 10)) < 10 THEN [err |-> "struct.error", bfs |-> <<>>]
  ELSE LoadBody(data, UnpackH(SubSeq(data, 6, 7)), UnpackIHalves(SubSeq(data, 8, 11)),
                ReadLen(SubSeq(data, 12, 15), Len(data) - 15))

\* Whether the stream has the 15 header bytes but fewer payload bytes than its l field says.
ShortPayload(data) ==
  /\ Len(data) >= 15
  /\ \/ data[14] # 0 \/ data[15] # 0
     \/ UnpackH(SubSeq(data, 12, 13)) > Len(data) - 15

\* What load can make of a stream. abom.py does not compare the bytes it read with l: on
\* a short payload the outcome is the decoder's (yaecl), either symbols decoded from what
\* there is or an error of the library's own.
LoadOutcomes(data) ==
  {ABOMLoad(data)} \cup
    (IF ShortPayload(data) /\ ABOMLoad(data).err = "ok"
     THEN {[err |-> "decoder error", bfs |-> <<>>]} ELSE {})

\* ------------------------------------------------------------ actions
\* abom.insert(x) while the containers are being filled.
Insert(a, x) ==
  /\ pc = "build"
  /\ \E r \in {ABOMInsert(heap, bfs[a], cfg[a], x)} :
     \E c \in {Canon(r.heap, [bfs EXCEPT ![a] = r.list])} :
       /\ Len(r.list) <= MaxFilters
       /\ heap' = c.heap
       /\ bfs' = c.bfs
       /\ last' = Op("insert", a, a, x, r.err, FALSE, Len(bfs[a]))
  /\ UNCHANGED <<fs, hb, cfg, pc, file, src, loaded, it>>

\* a.union(b) for two different containers.
Union(a, b) ==
  /\ pc = "build"
  /\ a # b
  /\ \E r \in {ABOMUnion(heap, bfs[a], cfg[a], bfs[b], cfg[b])} :
     \E c \in {Canon(r.heap, [bfs EXCEPT ![a] = r.list])} :
       /\ Len(r.list) <= MaxFilters
       /\ heap' = c.heap
       /\ bfs' = c.bfs
       /\ last' = Op("union", a, b, NoInput, r.err, FALSE, Len(bfs[a]))
  /\ UNCHANGED <<fs, hb, cfg, pc, file, src, loaded, it>>

\* ABOM.union followed one iteration at a time. a.union(b) is called, b possibly a itself:
\* the (m, k) test, then the loop `for bf in abom.bfs` is entered at the first position.
\* n0 and d0 are the lengths of the two lists at the call.
UnionBegin(a, b) ==
  /\ pc = "build"
  /\ Len(bfs[a]) <= MaxFilters
  /\ Len(bfs[b]) <= MaxFilters
  /\ IF cfg[a].m # cfg[b].m \/ cfg[a].k # cfg[b].k
     THEN /\ last' = Op("union", a, b, NoInput, "AbomError", FALSE, Len(bfs[a]))
          /\ UNCHANGED <<pc, it>>
     ELSE /\ pc' = "union"
          /\ it' = [a |-> a, b |-> b, pos |-> 1, n0 |-> Len(bfs[b]), d0 |-> Len(bfs[a])]
          /\ last' = Op("union_begin", a, b, NoInput, "ok", FALSE, Len(bfs[a]))
  /\ UNCHANGED <<fs, hb, heap, bfs, cfg, file, src, loaded>>

\* One iteration of the loop for the filter at position pos of the source's list as it is
\* NOW (a Python list iterator reads the live list): [heap, list, err] of the destination.
UnionOne(h, dl, ref, i) ==
  IF i = 0 THEN [heap |-> h, list |-> Append(dl, ref), err |-> "ok"]
  ELSE IF i \in UnionBad(h, dl, h[ref]) THEN [heap |-> h, list |-> dl, err |-> "ValueError"]
  ELSE [heap |-> Append(h, CBFOr(h[dl[i]], h[ref])), list |-> [dl EXCEPT ![i] = Len(h) + 1],
        err |-> "ok"]

UnionStep ==
  /\ pc = "union"
  /\ it.pos <= Len(bfs[it.b])
  /\ Len(bfs[it.a]) <= 2 * MaxFilters
  /\ \E ref \in {bfs[it.b][it.pos]} :
     \E r \in {UnionOne(heap, bfs[it.a], ref,
                         UnionStop(UnionBad(heap, bfs[it.a], heap[ref])
                                     \cup UnionAccepting(heap, bfs[it.a], heap[ref])))} :
     \E c \in {Canon(r.heap, [bfs EXCEPT ![it.a] = r.list])} :
       /\ heap' = c.heap
       /\ bfs' = c.bfs
       /\ IF r.err = "ok"
          THEN /\ it' = [it EXCEPT !.pos = @ + 1]
               /\ pc' = "union"
               /\ last' = Op("union_step", it.a, it.b, NoInput, "ok",
                             Len(r.list) > Len(bfs[it.a]), Len(bfs[it.a]))
          ELSE /\ it' = NoIter
               /\ pc' = "build"
               /\ last' = Op("union", it.a, it.b, NoInput, r.err, FALSE, it.d0)
  /\ UNCHANGED <<fs, hb, cfg, file, src, loaded>>

\* The iterator is exhausted: union returns self.
UnionEnd ==
  /\ pc = "union"
  /\ it.pos > Len(bfs[it.b])
  /\ pc' = "build"
  /\ it' = NoIter
  /\ last' = Op("union", it.a, it.b, NoInput, "ok", FALSE, it.d0)
  /\ UNCHANGED <<fs, hb, heap, bfs, cfg, file, src, loaded>>

\* The container R held by value in loaded.bfs: R.insert(x).
InsertR(x) ==
  /\ pc = "build"
  /\ \E r \in {ABOMInsert(loaded.bfs, Refs(loaded.bfs), DefaultTuple, x)} :
       /\ Len(r.list) <= MaxFilters
       /\ loaded' = [err |-> r.err, bfs |-> [j \in 1..Len(r.list) |-> r.heap[r.list[j]]]]
       /\ last' = Op("insert", "R", "R", x, r.err, FALSE, Len(loaded.bfs))
  /\ UNCHANGED <<fs, hb, heap, bfs, cfg, pc, file, src, it>>

\* (P.union(Q)).union(R) on copies: [heap, list, err] of the result.
AssocLeftThen(u, R, c) ==
  IF u.err # "ok" THEN u
  ELSE ABOMUnion(u.heap \o R, u.list, c, NewRefs(u.heap, Len(R)), c)
AssocLeft(h, P, Q, R, c) == AssocLeftThen(ABOMUnion(h, P, c, Q, c), R, c)

\* P.union(Q.union(R)) on copies.
AssocRightThen(v, P, c) ==
  IF v.err # "ok" THEN v
  ELSE ABOMUnion(v.heap, P, c, v.list, c)
AssocRight(h, P, Q, R, c) ==
  AssocRightThen(ABOMUnion(h \o R, Q, c, NewRefs(h, Len(R)), c), P, c)

\* A grouping that leaves the third container out, for comparison.
AssocWithoutR(h, P, Q, R, c, g) == ABOMUnion(h, P, c, Q, c)

Assoc(h, P, Q, R, c, g) ==
  IF g = "left" THEN AssocLeft(h, P, Q, R, c) ELSE AssocRight(h, P, Q, R, c)

\* The three containers are merged in the grouping g; P becomes the result.
Merge(g) ==
  /\ pc = "build"
  /\ \E r \in {Assoc(heap, bfs["P"], bfs["Q"], loaded.bfs, cfg["P"], g)} :
     \E c \in {Canon(r.heap, [bfs EXCEPT !["P"] = r.list])} :
       /\ heap' = c.heap
       /\ bfs' = c.bfs
       /\ last' = Op("merge_" \o g, "P", "Q", NoInput, r.err, FALSE, Len(bfs["P"]))
  /\ pc' = "merged"
  /\ UNCHANGED <<fs, hb, cfg, file, src, loaded, it>>

\* a.dump(f): the build writes its container out.
Dump(a) ==
  /\ pc = "build"
  /\ \E r \in {ABOMDump(heap, bfs[a], cfg[a])} :
     \E c \in {Canon(r.heap, [bfs EXCEPT ![a] = r.list])} :
       /\ heap' = c.heap
       /\ bfs' = c.bfs
       /\ file' = r.data
       /\ last' = Op("dump", a, a, NoInput, "ok", FALSE, Len(bfs[a]))
  /\ pc' = "dumped"
  /\ src' = a
  /\ UNCHANGED <<fs, hb, cfg, loaded, it>>

\* ABOM.dump of the earliest revision, the bytes written first: pack('<ccccBL', ..., n).
EarliestHeader(n) == MAGIC \o <<VERSION>> \o PackI(n)

\* ABOM.dump of the earliest revision on a container into which nothing was inserted:
\* __init__ left bfs = [], the header is written, and p_1 = 0 / (len(self.bfs) * self.m)
\* divides by zero. (That revision has no load.)
DumpEarliest ==
  /\ pc = "build"
  /\ Len(bfs["P"]) = 0
  /\ file' = EarliestHeader(Len(bfs["P"]))
  /\ pc' = "failed"
  /\ src' = "P"
  /\ last' = Op("dump_earliest", "P", "P", NoInput, "ZeroDivisionError", FALSE, 0)
  /\ UNCHANGED <<fs, hb, heap, bfs, cfg, loaded, it>>

\* ------------------------------------------------- the legacy revision
\* ABOM.m of the legacy revision (the program: 2^16, a quarter of the current m), scaled:
\* half of the current m. ABOM.k of the legacy revision.
LEGACY_M == 2 ^ (IdxBits - 1)
LEGACY_K == 16
LegacyTuple == [m |-> LEGACY_M, k |-> LEGACY_K]

\* The legacy ABOM.dump: pack('<ccccBHIL', ..., n, int(p_1 * MAX_INT), len(cbfs)) with
\* cbfs the coder's bits, then cbfs.tobytes(): the length field counts BITS.
LegacyFrame(n, q, bits) ==
  MAGIC \o <<VERSION>> \o PackH(n) \o PackIHalves(q) \o PackI(Len(bits)) \o BytesOfBits(bits)
LegacyDumpBytes(As, c, ones, total) ==
  LegacyFrame(Len(As), P1Quantized(ones, total),
              EncodeBits(Flatten(As), CdfOfDensity(ones, total)))
LegacyDump(As, c) ==
  LegacyDumpBytes(As, c, SumSeq([j \in 1..Len(As) |-> Count(As[j])]), Len(As) * c.m)

\* The legacy ABOM.load reads f.read(ceil(l / 8)) and keeps cbfs[:l]: the bits it decodes.
LegacyBits(b, payload) ==
  IF b[3] # 0 \/ b[4] # 0 \/ (UnpackH(b) + 7) \div 8 > Len(payload)
  THEN SubSeq(BitsOfStream(payload), 1,
              IF b[3] # 0 \/ b[4] # 0 \/ UnpackH(b) > 8 * Len(payload)
              THEN 8 * Len(payload) ELSE UnpackH(b))
  ELSE SubSeq(BitsOfStream(SubSeq(payload, 1, (UnpackH(b) + 7) \div 8)), 1, UnpackH(b))

\* coder.decompress(bits, n): n symbols from a list of bits.
LegacyDecodeSyms(bits, n, c1) ==
  DecSyms(bits, n, c1,
          [low |-> 0, high |-> FULL - 1,
           code |-> ba2int([i \in 1..STATE_BITS |-> BitAt(bits, i)]),
           pos |-> STATE_BITS + 1, out |-> <<>>]).out

\* The legacy ABOM.load after the header: abom = ABOM() already holds one empty filter,
\* and the n decoded filters are appended to it.
LegacyLoadFilters(n, blob) ==
  [err |-> "ok",
   bfs |-> <<NewCBF(LEGACY_M, LEGACY_K)>> \o
           [j \in 1..n |-> NewCBFWith(LEGACY_M, LEGACY_K,
                                       SubSeq(blob, (j - 1) * LEGACY_M + 1, j * LEGACY_M))]]
LegacyLoad(data) ==
  IF Read(data, 1, 4) # MAGIC THEN [err |-> "AbomError", bfs |-> <<>>]
  ELSE IF Read(data, 5, 1) # <<VERSION>> THEN [err |-> "AbomError", bfs |-> <<>>]
  ELSE IF Len(Read(data, 6, 10)) < 10 THEN [err |-> "struct.error", bfs |-> <<>>]
  ELSE LegacyLoadFilters(
         UnpackH(SubSeq(data, 6, 7)),
         LegacyDecodeSyms(LegacyBits(SubSeq(data, 12, 15), SubSeq(data, 16, Len(data))),
                          UnpackH(SubSeq(data, 6, 7)) * LEGACY_M,
                          CdfOfField(UnpackIHalves(SubSeq(data, 8, 11)))))

\* abom.dump(f) of the legacy revision, on container P.
DumpLegacy ==
  /\ pc = "build"
  /\ file' = LegacyDump(Arrays(heap, bfs["P"]), cfg["P"])
  /\ pc' = "dumped"
  /\ src' = "P"
  /\ last' = Op("dump_legacy", "P", "P", NoInput, "ok", FALSE, Len(bfs["P"]))
  /\ UNCHANGED <<fs, hb, heap, bfs, cfg, loaded, it>>

\* ABOM.load(f) of the legacy revision on the bytes written.
LoadLegacy ==
  /\ pc = "dumped"
  /\ loaded' = LegacyLoad(file)
  /\ pc' = "loaded"
  /\ last' = Op("load_legacy", "R", "R", NoInput, loaded'.err, FALSE, 0)
  /\ UNCHANGED <<fs, hb, heap, bfs, cfg, file, src, it>>

\* ABOM.union of the legacy and the earliest revision, one iteration: the inner loop
\* replaces the first accepting slot i by the union and breaks, and then
\* self.bfs.append(bf) runs whether or not a slot accepted.
LegacyUnionOne(h, dl, ref, i) ==
  IF i = 0 THEN [heap |-> h, list |-> Append(dl, ref), err |-> "ok"]
  ELSE IF i \in UnionBad(h, dl, h[ref]) THEN [heap |-> h, list |-> dl, err |-> "ValueError"]
  ELSE [heap |-> Append(h, CBFOr(h[dl[i]], h[ref])),
        list |-> Append([dl EXCEPT ![i] = Len(h) + 1], ref), err |-> "ok"]

\* The loop over the source's filters sl: [heap, list, err] of the destination.
RECURSIVE LegacyUnionLoop(_, _)
LegacyUnionLoop(r, sl) ==
  IF sl = <<>> \/ r.err # "ok" THEN r
  ELSE LegacyUnionLoop(
         LegacyUnionOne(r.heap, r.list, Head(sl),
                        UnionStop(UnionBad(r.heap, r.list, r.heap[Head(sl)])
                                    \cup UnionAccepting(r.heap, r.list, r.heap[Head(sl)]))),
         Tail(sl))

\* P.union(Q) as the legacy and the earliest revision do it, on containers with the
\* scaled tuple: the (m, k) test, then the loop.
UnionLegacy ==
  /\ pc = "build"
  /\ \E r \in {IF cfg["P"].m # cfg["Q"].m \/ cfg["P"].k # cfg["Q"].k
                THEN [heap |-> heap, list |-> bfs["P"], err |-> "AbomError"]
                ELSE LegacyUnionLoop([heap |-> heap, list |-> bfs["P"], err |-> "ok"],
                                     bfs["Q"])} :
     \E c \in {Canon(r.heap, [bfs EXCEPT !["P"] = r.list])} :
       /\ heap' = c.heap
       /\ bfs' = c.bfs
       /\ last' = Op("union_legacy", "P", "Q", NoInput, r.err, FALSE, Len(bfs["P"]))
  /\ pc' = "merged"
  /\ UNCHANGED <<fs, hb, cfg, file, src, loaded, it>>

\* ABOM.load(f) on the bytes written.
Load ==
  /\ pc = "dumped"
  /\ loaded' \in LoadOutcomes(file)
  /\ pc' = "loaded"
  /\ last' = Op("load", "R", "R", NoInput, loaded'.err, FALSE, 0)
  /\ UNCHANGED <<fs, hb, heap, bfs, cfg, file, src, it>>

\* A lookup that also sets the probed bits in the first filter, for comparison.
ContainsSetting(x) ==
  /\ pc = "loaded"
  /\ loaded.err = "ok"
  /\ Len(loaded.bfs) > 0
  /\ last' = Op("contains", "R", "R", x, "ok",
                ABOMContains(loaded.bfs, Refs(loaded.bfs), x), Len(loaded.bfs))
  /\ \E r \in {CBFHash(loaded.bfs[1], x)} :
       loaded' = [loaded EXCEPT !.bfs[1] = IF r.ok THEN CBFSetBits(@, r.h) ELSE @]
  /\ UNCHANGED <<fs, hb, heap, bfs, cfg, pc, file, src, it>>

\* x in abom, on the container load returned.
Contains(x) ==
  /\ pc = "loaded"
  /\ loaded.err = "ok"
  /\ last' = Op("contains", "R", "R", x, "ok",
                ABOMContains(loaded.bfs, Refs(loaded.bfs), x), Len(loaded.bfs))
  /\ UNCHANGED <<fs, hb, heap, bfs, cfg, pc, file, src, loaded, it>>

\* The stream given to load is not what dump wrote: its tail is missing.
Truncate(n) ==
  /\ pc = "dumped"
  /\ last.op \in {"dump", "setbyte"}
  /\ n < Len(file)
  /\ file' = SubSeq(file, 1, n)
  /\ last' = Op("truncate", src, src, NoInput, "ok", FALSE, 0)
  /\ UNCHANGED <<fs, hb, heap, bfs, cfg, pc, src, loaded, it>>

\* The stream given to load is not what dump wrote: byte i (1-based) is v.
SetByte(i, v) ==
  /\ pc = "dumped"
  /\ last.op = "dump"
  /\ i <= Len(file) /\ file[i] # v
  /\ file' = [file EXCEPT ![i] = v]
  /\ last' = Op("setbyte", src, src, NoInput, "ok", FALSE, 0)
  /\ UNCHANGED <<fs, hb, heap, bfs, cfg, pc, src, loaded, it>>

\* A link that loads the input's ABOM and does not merge it, for comparison.
LinkWithoutUnion(h, l, c, r) == [heap |-> h, list |-> l, err |-> r.err]

\* abom_union for one input whose ABOM stream loaded as r: abom |= ABOM.load(af) when the
\* load succeeded; on AbomError a warning, and abom stays as it is. [heap, list, err]
LinkUnion(h, l, c, r) ==
  IF r.err = "ok"
  THEN ABOMUnion(h \o r.bfs, l, c, NewRefs(h, Len(r.bfs)), DefaultTuple)
  ELSE [heap |-> h, list |-> l, err |-> r.err]

\* build_clang for a link: the ABOM Q holds the link's own dependencies; the ABOM of the
\* input object (the stream P's compilation wrote) is loaded and merged, and Q is written
\* out with the output. An error of load other than AbomError ends the build.
Link ==
  /\ pc = "dumped"
  /\ src = "P"
  /\ \E r \in LoadOutcomes(file) :
     \E u \in {LinkUnion(heap, bfs["Q"], cfg["Q"], r)} :
       IF u.err \in {"ok", "AbomError"}
       THEN \E d \in {ABOMDump(u.heap, u.list, cfg["Q"])} :
            \E c \in {Canon(d.heap, [bfs EXCEPT !["Q"] = d.list])} :
              /\ heap' = c.heap
              /\ bfs' = c.bfs
              /\ file' = d.data
              /\ src' = "Q"
              /\ pc' = "dumped"
              /\ last' = Op("link", "Q", "P", NoInput, u.err, FALSE, Len(bfs["Q"]))
       ELSE /\ pc' = "failed"
            /\ last' = Op("link", "Q", "P", NoInput, u.err, FALSE, Len(bfs["Q"]))
            /\ UNCHANGED <<heap, bfs, file, src>>
  /\ UNCHANGED <<fs, hb, cfg, loaded, it>>

Next ==
  \/ \E a \in Aboms, x \in Inputs : Insert(a, x)
  \/ \E a \in Aboms, b \in Aboms : Union(a, b)
  \/ \E a \in Aboms : Dump(a)
  \/ Load
  \/ \E x \in Inputs : Contains(x)

Spec == Init /\ [][Next]_vars

\* Both containers with the class's (m, k).
InitDefault == Init /\ cfg = [a \in Aboms |-> DefaultTuple]

\* Loading arbitrary streams: a container is filled and written, the stream is cut short
\* or has one of its first five bytes changed, and is loaded.
HeaderBytes == {0, 1, 2, 65, 66, 77, 79, 97}
NextLoad ==
  \/ \E x \in Inputs \cup {Str(<<10, 7, 0, 0>>)} : Insert("P", x)
  \/ Dump("P")
  \/ DumpEarliest
  \/ \E n \in 0..20 : Truncate(n)
  \/ \E i \in 1..5, v \in HeaderBytes : SetByte(i, v)
  \/ Load
  \/ \E x \in Inputs \cup {Str(<<10, 7, 0, 0>>)} : Contains(x)

SpecLoad == InitDefault /\ [][NextLoad]_vars

\* A container of the legacy tuple: its one pre-seeded filter after some inserts, with any
\* bit array, or such a container as the legacy load returns it, behind a fresh empty filter.
LegacyContainers ==
  {<<NewCBFWith(LEGACY_M, LEGACY_K, A)>> : A \in [1..LEGACY_M -> {0, 1}]}
    \cup {<<NewCBF(LEGACY_M, LEGACY_K), NewCBFWith(LEGACY_M, LEGACY_K, A)>> :
            A \in [1..LEGACY_M -> {0, 1}]}

InitLegacy ==
  /\ heap \in LegacyContainers
  /\ bfs = [a \in Aboms |-> IF a = "P" THEN Refs(heap) ELSE <<>>]
  /\ cfg = [a \in Aboms |-> LegacyTuple]
  /\ pc = "build"
  /\ file = <<>>
  /\ src = "P"
  /\ loaded = [err |-> "none", bfs |-> <<>>]
  /\ last = Op("init", "P", "P", NoInput, "ok", FALSE, 0)
  /\ it = NoIter
  /\ fs = NoFiles
  /\ hb = <<>>

\* One logical ABOM, written by either revision's dump and read by either revision's load.
NextProfiles ==
  \/ DumpLegacy
  \/ Dump("P")
  \/ LoadLegacy
  \/ Load

SpecProfiles == InitLegacy /\ [][NextProfiles]_vars

\* "a71c", "1c6b", "2000": the first two share no probe, the third shares one with each.
AssocInputs == { Str(<<10, 7, 1, 12>>), Str(<<1, 12, 6, 11>>), Str(<<2, 0, 0, 0>>) }

\* Containers are filled and merged, a union being followed through its loop; a container
\* may be merged into itself.
NextUnion ==
  \/ \E a \in Aboms, x \in AssocInputs : Insert(a, x)
  \/ \E a \in Aboms, b \in Aboms : UnionBegin(a, b)
  \/ UnionStep
  \/ UnionEnd

SpecUnion == InitDefault /\ [][NextUnion]_vars

\* The interpreter keeps running the call it is in.
FairSpecUnion == SpecUnion /\ WF_vars(UnionStep) /\ WF_vars(UnionEnd)

\* Three containers are filled, P, then Q, then R, and merged in one of the two groupings,
\* or P and Q are merged by the older revisions' union.
NextAssoc ==
  \/ \E x \in AssocInputs : last.a = "P" /\ Insert("P", x)
  \/ \E x \in AssocInputs : last.a \in {"P", "Q"} /\ Insert("Q", x)
  \/ \E x \in AssocInputs : InsertR(x)
  \/ \E g \in {"left", "right"} : Merge(g)
  \/ UnionLegacy

SpecAssoc == InitDefault /\ [][NextAssoc]_vars

\* Compile, then link: P is the ABOM of an object being compiled, Q the ABOM of the link
\* that takes the object as input; the linked output's ABOM is then read by abom-check.
NextLink ==
  \/ \E a \in Aboms, x \in Inputs : Insert(a, x)
  \/ Dump("P")
  \/ Link
  \/ Load
  \/ \E x \in Inputs : Contains(x)

SpecLink == InitDefault /\ [][NextLink]_vars


\* ------------------------------------- CompressedBloomFilter objects
\* CompressedBloomFilter.__init__(m, k, A): the test on m, then the array is adopted.
CBFInit(mm, kk, A) ==
  IF mm = 0 \/ ~IsPow2(mm)
  THEN [err |-> "ValueError", bfs |-> <<>>]
  ELSE [err |-> "ok", bfs |-> <<NewCBFWith(mm, kk, A)>>]

\* CompressedBloomFilter.load(f, compressed=False): m, k and l from the header, l bytes
\* of bits, lowest bit first, of which the first m are kept.
CBFLoadRaw(data) ==
  IF Len(data) < 9 THEN [err |-> "struct.error", bfs |-> <<>>]
  ELSE IF Len(data) - 9 < UnpackI(SubSeq(data, 6, 9)) THEN [err |-> "EOFError", bfs |-> <<>>]
  ELSE \* A[:m] of the 8 * l bits read
       CBFInit(UnpackI(SubSeq(data, 1, 4)), data[5],
               SubSeq(BitsOfStream(SubSeq(data, 10, 9 + UnpackI(SubSeq(data, 6, 9)))), 1,
                      IF UnpackI(SubSeq(data, 1, 4)) < 8 * UnpackI(SubSeq(data, 6, 9))
                      THEN UnpackI(SubSeq(data, 1, 4)) ELSE 8 * UnpackI(SubSeq(data, 6, 9))))

\* CompressedBloomFilter(mm, k, A)
Construct(mm, A) ==
  /\ pc = "build"
  /\ loaded' = CBFInit(mm, k, A)
  /\ pc' = "made"
  /\ last' = Op("construct", "P", "P", NoInput, loaded'.err, FALSE, mm)
  /\ UNCHANGED <<fs, hb, heap, bfs, cfg, file, src, it>>

\* CompressedBloomFilter(mm, k): the array is bitarray(m), all zero.
ConstructFresh(mm) ==
  /\ pc = "build"
  /\ loaded' = CBFInit(mm, k, [i \in 1..mm |-> 0])
  /\ pc' = "made"
  /\ last' = Op("construct_fresh", "P", "P", NoInput, loaded'.err, FALSE, mm)
  /\ UNCHANGED <<fs, hb, heap, bfs, cfg, file, src, it>>

\* bf.clone() of the filter made.
Clone ==
  /\ pc = "made" /\ loaded.err = "ok"
  /\ loaded' = CBFInit(loaded.bfs[1].m, loaded.bfs[1].k, loaded.bfs[1].A)
  /\ last' = Op("clone", "P", "P", NoInput, loaded'.err, FALSE, loaded.bfs[1].m)
  /\ UNCHANGED <<fs, hb, heap, bfs, cfg, pc, file, src, it>>

\* CompressedBloomFilter.load(f, compressed=False) on a stream with header (mm, k, l) and
\* the payload bytes.
LoadRaw(mm, l, payload) ==
  /\ pc = "build"
  /\ file' = PackI(mm) \o <<k>> \o PackI(l) \o payload
  /\ loaded' = CBFLoadRaw(file')
  /\ pc' = "made"
  /\ last' = Op("load_raw", "P", "P", NoInput, loaded'.err, FALSE, mm)
  /\ UNCHANGED <<fs, hb, heap, bfs, cfg, src, it>>

\* One filter object is made, in one of the ways the class offers, and cloned.
NextShape ==
  \/ \E mm \in {0, 1, 2, 3, 4, 8, 16}, A \in UNION {[1..n -> {0, 1}] : n \in 0..4} :
       Construct(mm, A)
  \/ \E mm \in {0, 1, 2, 3, 4, 8, 16} : ConstructFresh(mm)
  \/ Clone
  \/ \E mm \in {0, 1, 2, 3, 4, 8, 16}, l \in 0..2, payload \in {<<>>, <<165>>, <<165, 60>>} :
       LoadRaw(mm, l, payload)

SpecShape == InitDefault /\ [][NextShape]_vars

\* ------------------------------------------ the model of the coder, full size
\* idx_bits of ABOM.m = 2**18, unscaled: the totals n*m of the program exceed 32 bits
\* and are held as sequences of bits, lowest first.
FULL_IDX_BITS == 18

RECURSIVE ToBits(_)
ToBits(v) == IF v = 0 THEN <<>> ELSE <<v % 2>> \o ToBits(v \div 2)
RECURSIVE FromBits(_)
FromBits(b) == IF b = <<>> THEN 0 ELSE Head(b) + 2 * FromBits(Tail(b))
\* a - b for a >= b, with borrow c.
RECURSIVE SubBits(_, _, _)
SubBits(a, b, c) ==
  IF a = <<>> \/ c \notin {0, 1} THEN <<>>
  ELSE <<(Head(a) - (IF b = <<>> THEN 0 ELSE Head(b)) - c) % 2>>
         \o SubBits(Tail(a), IF b = <<>> THEN <<>> ELSE Tail(b),
                    IF Head(a) - (IF b = <<>> THEN 0 ELSE Head(b)) - c < 0 THEN 1 ELSE 0)
\* floor(b / d) for a divisor d below 2^16, by long division from the highest bit with
\* the remainder r carried.
RECURSIVE DivBits(_, _, _)
DivBits(b, d, r) ==
  IF b = <<>> \/ r \notin 0..(d - 1) THEN <<>>
  ELSE Append(DivBits(SubSeq(b, 1, Len(b) - 1), d, (2 * r + b[Len(b)]) % d),
              (2 * r + b[Len(b)]) \div d)
\* floor(b / (n * 2^FULL_IDX_BITS))
DivByTotal(b, n) ==
  IF Len(b) <= FULL_IDX_BITS THEN <<>>
  ELSE DivBits(SubSeq(b, FULL_IDX_BITS + 1, Len(b)), n, 0)

\* sum of A.count() over n filters of which zeros bits are 0: n * m - zeros.
OnesBits(n, zeros) ==
  SubBits([i \in 1..FULL_IDX_BITS |-> 0] \o ToBits(n), ToBits(zeros), 0)

\* dump: cdf[1] = int((1 - p_1) * CDF_MAX) with p_1 = ones / (n * m).
CdfOfDensityFull(n, zeros) ==
  FromBits(DivByTotal([i \in 1..CDF_BITS |-> 0] \o ToBits(zeros), n))

\* dump: int(p_1 * MAX_INT) = floor((ones * 2^32 - ones) / (n * m)), as (hi, lo).
P1QuantizedFull(n, zeros) ==
  LET q == DivByTotal(SubBits([i \in 1..32 |-> 0] \o OnesBits(n, zeros),
                              OnesBits(n, zeros), 0), n)
      bit(i) == IF i <= Len(q) THEN q[i] ELSE 0
  IN [hi |-> FromBits([i \in 1..16 |-> bit(16 + i)]),
      lo |-> FromBits([i \in 1..16 |-> bit(i)])]

\* abom.dump(f) for a container of n filters with the given number of zero bits: the
\* header, and the table the encoder was given.
DumpFull(n, zeros) ==
  /\ pc = "build"
  /\ file' = MAGIC \o <<VERSION>> \o PackH(n) \o PackIHalves(P1QuantizedFull(n, zeros))
                \o PackI(0)
  /\ pc' = "dumped"
  /\ last' = Op("dump_full", "P", "P", NoInput, "ok", FALSE, CdfOfDensityFull(n, zeros))
  /\ UNCHANGED <<fs, hb, heap, bfs, cfg, src, loaded, it>>

\* ABOM.load(f) up to the table the decoder is given.
LoadFull ==
  /\ pc = "dumped"
  /\ pc' = "loaded"
  /\ last' = Op("load_full", "R", "R", NoInput, "ok", FALSE,
                CdfOfField(UnpackIHalves(SubSeq(file, 8, 11))))
  /\ UNCHANGED <<fs, hb, heap, bfs, cfg, file, src, loaded, it>>

\* Containers of a few and of very many filters, nearly all of whose bits are set.
NextFull ==
  \/ \E n \in {1, 2, 3, 16384, 16385, 65535}, zeros \in (0..8) \cup (65536..65543) :
       DumpFull(n, zeros)
  \/ LoadFull

SpecFull == InitDefault /\ [][NextFull]_vars

\* ------------------------------------------------------------ helpers.py
\* INDEX_BITS = (ABOM.m.bit_length() - 1) * ABOM.k, with ABOM.m unscaled.
INDEX_BITS == FULL_IDX_BITS * k
INDEX_BYTES == (INDEX_BITS + 7) \div 8
TRAILING_NIBBLE == (INDEX_BITS % 8) + 1 <= 5

\* hash(file), given the digest(INDEX_BYTES) of the file: h[:INDEX_BITS].
Hash(d) == SubSeq(BitsOfBytes(d), 1, INDEX_BITS)

\* hash_hex(file): hash(file).tobytes().hex(), the bits padded with zeros to whole bytes,
\* without its last digit when TRAILING_NIBBLE.
HashHex(d) ==
  LET h == Hash(d)
      padded == h \o [i \in 1..((8 - (Len(h) % 8)) % 8) |-> 0]
      digits == [i \in 1..(Len(padded) \div 4) |-> ba2int(SubSeq(padded, 4 * i - 3, 4 * i))]
  IN IF TRAILING_NIBBLE THEN SubSeq(digits, 1, Len(digits) - 1) ELSE digits

\* hash_bits without the '0' appended to a text of odd length, for comparison.
HashBitsUnpadded(t) ==
  LET b == FromHex(t)
  IN IF ~b.ok \/ Len(b.bytes) # INDEX_BYTES THEN [ok |-> FALSE, h |-> <<>>]
     ELSE [ok |-> TRUE, h |-> SubSeq(BitsOfBytes(b.bytes), 1, INDEX_BITS)]

\* hash_bits(hex): [ok, h]; ok is FALSE when ValueError is raised, by bytes.fromhex or
\* by the test on the length.
HashBits(t) ==
  LET b == FromHex(IF TRAILING_NIBBLE /\ Len(t) % 2 = 1 THEN t \o <<0>> ELSE t)
  IN IF ~b.ok \/ Len(b.bytes) # INDEX_BYTES THEN [ok |-> FALSE, h |-> <<>>]
     ELSE [ok |-> TRUE, h |-> SubSeq(BitsOfBytes(b.bytes), 1, INDEX_BITS)]

\* abom-hash <file>: the text printed for a file whose digest is d (file holds d).
HashHexStep(d) ==
  /\ pc = "build"
  /\ file' = d
  /\ hb' = Hash(d)
  /\ pc' = "hashed"
  /\ last' = Op("hash_hex", "P", "P", Str(HashHex(d)), "ok", FALSE, 0)
  /\ UNCHANGED <<heap, bfs, cfg, src, loaded, it, fs>>

\* hash_bits(argv[2]) of abom-check, on the text t.
HashBitsStep(t) ==
  /\ pc = "hashed"
  /\ \E r \in {HashBits(t)} :
       /\ hb' = r.h
       /\ last' = Op("hash_bits", "P", "P", Str(t), IF r.ok THEN "ok" ELSE "ValueError",
                     FALSE, 0)
  /\ pc' = "checked"
  /\ UNCHANGED <<heap, bfs, cfg, file, src, loaded, it, fs>>

\* A file is hashed and the text printed, or another text, is given to hash_bits:
\* 8, 10, 11 and 12 digits, a character that is no hex digit, nothing.
NextHash ==
  \/ \E d \in [1..INDEX_BYTES -> {0, 167, 255}] : HashHexStep(d)
  \/ \E t \in IF pc # "hashed" THEN {}
              ELSE {last.x.v, SubSeq(last.x.v, 1, 8), last.x.v \o <<5>>, last.x.v \o <<5, 1>>,
                    last.x.v \o <<5, 1, 2>>, SubSeq(last.x.v, 1, 8) \o <<NonHex>>, <<>>} :
       HashBitsStep(t)

SpecHash == InitDefault /\ [][NextHash]_vars

\* -------------------------------------------------------------- check.py
\* The build left a binary, with the stream written as its ABOM section or without one,
\* and possibly a file <binary>.abom: the same stream, one with another magic word, an
\* empty one or one cut short in its header.
Install(sec, side) ==
  /\ pc = "dumped"
  /\ fs' = [section |-> [exists |-> sec, data |-> IF sec THEN file ELSE <<>>],
            sidecar |-> [exists |-> side # "none",
                         data |-> CASE side = "same" -> file
                                    [] side = "magic" -> <<97>> \o Tail(file)
                                    [] side = "cut" -> SubSeq(file, 1, 7)
                                    [] OTHER -> <<>>]]
  /\ pc' = "built"
  /\ last' = Op("install", "P", "P", NoInput, "ok", FALSE, 0)
  /\ UNCHANGED <<heap, bfs, cfg, file, src, loaded, it, hb>>

\* check(): abom-check <binary> <hash> with the text t as the hash. NamedTemporaryFile()
\* is bound to af; with a sidecar present, open(f'{binary}.abom', 'rb') is bound to af as
\* well, so that af.name, the file llvm-objcopy dumps the section into, is the sidecar
\* (last.b: the file written). The temporary file is deleted when the with block is left.
Check(t) ==
  /\ pc = "built"
  /\ \E h \in {HashBits(t)} :
     \E side \in (IF fs.sidecar.exists THEN LoadOutcomes(fs.sidecar.data)
                  ELSE {[err |-> "none", bfs |-> <<>>]}) :
     \E emb \in LoadOutcomes(fs.section.data) :
     \E x \in {Bytes([i \in 1..(IF h.ok THEN INDEX_BYTES ELSE 0) |->
                       ba2int(SubSeq(h.h \o <<0, 0, 0, 0, 0, 0, 0, 0>>, 8 * i - 7, 8 * i))])} :
       /\ hb' = h.h
       /\ IF ~h.ok
          THEN /\ last' = Op("check", "R", "none", Str(t), "Invalid hash", FALSE, 0)
               /\ UNCHANGED <<fs, loaded>>
          ELSE IF side.err = "ok"
          THEN /\ loaded' = side
               /\ last' = Op("check", "R", "none", Str(t), "ok",
                             ABOMContains(side.bfs, Refs(side.bfs), x), 0)
               /\ UNCHANGED fs
          ELSE IF side.err \notin {"none", "AbomError"}
          THEN /\ last' = Op("check", "R", "none", Str(t), side.err, FALSE, 0)
               /\ UNCHANGED <<fs, loaded>>
          ELSE IF ~fs.section.exists
          THEN /\ last' = Op("check", "R", "none", Str(t), "Input lacks ABOM", FALSE, 0)
               /\ UNCHANGED <<fs, loaded>>
          ELSE /\ fs' = IF fs.sidecar.exists
                        THEN [fs EXCEPT !.sidecar = [exists |-> TRUE, data |-> fs.section.data]]
                        ELSE fs
               /\ loaded' = emb
               /\ last' = Op("check", "R", IF fs.sidecar.exists THEN "sidecar" ELSE "temp",
                             Str(t),
                             IF emb.err = "AbomError" THEN "Input lacks ABOM" ELSE emb.err,
                             emb.err = "ok" /\ ABOMContains(emb.bfs, Refs(emb.bfs), x), 0)
  /\ pc' = "checked"
  /\ UNCHANGED <<heap, bfs, cfg, file, src, it>>

\* A container is filled and written, the binary and its sidecar are left, and abom-check
\* is run.
NextCheck ==
  \/ \E x \in {Str(<<10, 7, 1, 12>>), Str(<<2, 12, 6, 11>>)} : Insert("P", x)
  \/ Dump("P")
  \/ \E sec \in BOOLEAN, side \in {"none", "same", "magic", "empty", "cut"} :
       Install(sec, side)
  \/ \E t \in {<<10, 7, 1, 12, 0, 0, 0, 0, 0>>, <<1, 12, 6, 11, 0, 0, 0, 0, 0>>,
               <<10, 7, 1>>} : Check(t)

SpecCheck == InitDefault /\ [][NextCheck]_vars

\* ------------------------------------------------------------- claims
\* The filter objects of container a, in order.
Filters(a) == [j \in 1..Len(bfs[a]) |-> heap[bfs[a][j]]]
\* Every possible list of k probes into a table of mm bits.
AllProbes(mm, kk) == [1..kk -> 0..(mm - 1)]
\* Whether some filter of the list has every probed bit set.
AnyFilterHas(h, l, probes) ==
  \E i \in 1..Len(l) : CBFContainsProbes(h[l[i]], [ok |-> TRUE, h |-> probes])

\* C1: no false negatives. A successful insert(x) leaves x contained, and no later step
\* (insert, union or dump, on this container or on the other) makes a contained input
\* of a container uncontained: a step either leaves the container's filters as they
\* were or keeps every contained input contained.
C1_NoFalseNegatives ==
  [][ /\ (last'.op = "insert" /\ last'.err = "ok")
           => ABOMContains(heap', bfs'[last'.a], last'.x)
      /\ \A a \in Aboms :
           \/ Filters(a)' = Filters(a)
           \/ \A x \in ValidInputs :
                ABOMContains(heap, bfs[a], x) => ABOMContains(heap', bfs'[a], x) ]_vars

\* An insert has just spawned a second filter while another input sits in the first.
C1_Witness ==
  /\ last.op = "insert" /\ last.err = "ok"
  /\ last.oldLen = 1 /\ Len(bfs[last.a]) = 2
  /\ \E x \in ValidInputs :
       /\ ~CBFContains(heap[bfs[last.a][2]], x)
       /\ CBFContains(heap[bfs[last.a][1]], x)

\* C2: union is a superset. After a successful a.union(b), every input that a or b
\* contained before the call is contained in a.
C2_UnionSuperset ==
  [][ (last'.op = "union" /\ last'.err = "ok") =>
        \A x \in Inputs :
          (ABOMContains(heap, bfs[last'.a], x) \/ ABOMContains(heap, bfs[last'.b], x))
            => ABOMContains(heap', bfs'[last'.a], x) ]_vars

\* A union has merged one of the source's two filters into a slot and appended the other.
C2_Witness ==
  /\ last.op = "union" /\ last.err = "ok"
  /\ last.oldLen = 1 /\ Len(bfs[last.b]) = 2 /\ Len(bfs[last.a]) = 2
  /\ \E x \in ValidInputs : ABOMContains(heap, bfs[last.a], x)

\* C3: serialize/deserialize round trip. Loading what dump wrote for a container with
\* the class's (m, k) gives as many filters as the container has, with the class's
\* (m, k) and bit arrays equal index by index.
C3_RoundTrip ==
  (pc = "loaded" /\ cfg[src] = DefaultTuple) =>
    /\ loaded.err = "ok"
    /\ Len(loaded.bfs) = Len(bfs[src])
    /\ \A j \in 1..Len(loaded.bfs) :
         /\ loaded.bfs[j].A = heap[bfs[src][j]].A
         /\ loaded.bfs[j].m = cfg[src].m
         /\ loaded.bfs[j].k = cfg[src].k

\* A container of two non-empty filters has been written and read back.
C3_Witness ==
  /\ pc = "loaded" /\ cfg[src] = DefaultTuple
  /\ Len(bfs[src]) = 2
  /\ \A j \in 1..2 : Count(heap[bfs[src][j]].A) > 0

\* C4: membership survives serialization. For a container with the class's (m, k) and
\* every query, the loaded container answers contains as the written one does.
C4_MembershipSurvives ==
  (pc = "loaded" /\ cfg[src] = DefaultTuple) =>
    /\ loaded.err = "ok"
    /\ \A x \in Inputs :
         ABOMContains(loaded.bfs, Refs(loaded.bfs), x) = ABOMContains(heap, bfs[src], x)
    /\ \A probes \in AllProbes(m, k) :
         AnyFilterHas(loaded.bfs, Refs(loaded.bfs), probes) = AnyFilterHas(heap, bfs[src], probes)

\* The loaded container has just reported an input of the written one present.
C4_Witness ==
  /\ pc = "loaded" /\ cfg[src] = DefaultTuple
  /\ last.op = "contains" /\ last.ret = TRUE
  /\ ABOMContains(heap, bfs[src], last.x)
  /\ \E x \in ValidInputs : ~ABOMContains(heap, bfs[src], x)

\* C5: per-filter FPR cap. After every insert or union on a container, each of its
\* filters has FPR <= f or was appended by that operation.
C5_FprCap ==
  (last.op \in {"insert", "union"}) =>
    \A j \in 1..Len(bfs[last.a]) :
      FprAtMost(heap[bfs[last.a][j]]) \/ j > last.oldLen

\* C6: union commutativity, membership-wise. For two containers with equal (m, k), the
\* unions P.union(Q) and Q.union(P), each computed from the containers as they are,
\* answer contains alike for every possible list of probes and every input.
C6_UnionCommutes ==
  (pc = "build" /\ cfg["P"] = cfg["Q"]) =>
    \A u \in {ABOMUnion(heap, bfs["P"], cfg["P"], bfs["Q"], cfg["Q"])} :
    \A v \in {ABOMUnion(heap, bfs["Q"], cfg["Q"], bfs["P"], cfg["P"])} :
      /\ u.err = "ok" /\ v.err = "ok"
      /\ \A probes \in AllProbes(cfg["P"].m, cfg["P"].k) :
           AnyFilterHas(u.heap, u.list, probes) = AnyFilterHas(v.heap, v.list, probes)
      /\ \A x \in Inputs :
           ABOMContains(u.heap, u.list, x) = ABOMContains(v.heap, v.list, x)

\* Two containers of two filters each, whose two unions both merge and append and lay
\* the filters out differently.
C6_Witness ==
  /\ pc = "build" /\ cfg["P"] = cfg["Q"]
  /\ Len(bfs["P"]) = 2 /\ Len(bfs["Q"]) = 2
  /\ Len(ABOMUnion(heap, bfs["P"], cfg["P"], bfs["Q"], cfg["Q"]).list) = 3
  /\ Arrays(ABOMUnion(heap, bfs["P"], cfg["P"], bfs["Q"], cfg["Q"]).heap,
            ABOMUnion(heap, bfs["P"], cfg["P"], bfs["Q"], cfg["Q"]).list)
       # Arrays(ABOMUnion(heap, bfs["Q"], cfg["Q"], bfs["P"], cfg["P"]).heap,
                ABOMUnion(heap, bfs["Q"], cfg["Q"], bfs["P"], cfg["P"]).list)

\* C7: parameter mismatch. a.union(b) for containers that differ in m or in k raises
\* AbomError and leaves every filter list and every filter's bits as they were.
C7_MismatchFails ==
  [][ (last'.op = "union" /\ cfg[last'.a] # cfg[last'.b]) =>
        /\ last'.err = "AbomError"
        /\ heap' = heap
        /\ bfs' = bfs ]_vars

\* A union of two non-empty containers with different tuples has just failed.
C7_Witness ==
  /\ last.op = "union" /\ last.err = "AbomError"
  /\ cfg[last.a] # cfg[last.b]
  /\ Len(bfs["P"]) > 0 /\ Len(bfs["Q"]) > 0

\* C8: contains is pure. A contains step changes no filter list and no filter bit, and
\* its result is the value the unchanged container determines for the query, so a
\* repeated call returns the same.
C8_ContainsPure ==
  [][ last'.op = "contains" =>
        /\ loaded' = loaded /\ heap' = heap /\ bfs' = bfs
        /\ last'.ret = ABOMContains(loaded'.bfs, Refs(loaded'.bfs), last'.x)
        /\ (last.op = "contains" /\ last.x = last'.x) => last'.ret = last.ret ]_vars

\* A query has been answered present, on a loaded container of two filters.
C8_Witness ==
  /\ last.op = "contains" /\ last.ret = TRUE
  /\ Len(loaded.bfs) = 2

OnesOf(a) == SumSeq([j \in 1..Len(bfs[a]) |-> Count(heap[bfs[a][j]].A)])
C10_HeaderLayout ==
  (pc \in {"dumped", "loaded"}) =>
    /\ Len(file) >= 15
    /\ file[1] = 65 /\ file[2] = 66 /\ file[3] = 79 /\ file[4] = 77
    /\ file[5] = 1
    /\ file[6] + 256 * file[7] = Len(bfs[src])
    /\ file[8] + 256 * file[9] = P1Quantized(OnesOf(src), Len(bfs[src]) * cfg[src].m).lo
    /\ file[10] + 256 * file[11] = P1Quantized(OnesOf(src), Len(bfs[src]) * cfg[src].m).hi
    /\ file[12] + 256 * file[13] + 65536 * file[14] + 16777216 * file[15] = Len(file) - 15
    /\ (pc = "loaded" => (loaded.err = "ok" /\ Len(loaded.bfs) = file[6] + 256 * file[7]))

\* A container of two filters with set bits has been written: n = 2, a non-zero density
\* and a non-empty payload.
C10_Witness ==
  /\ pc = "dumped"
  /\ Len(bfs[src]) = 2 /\ OnesOf(src) > 2
  /\ Len(file) > 15

\* C11: load rejects a wrong magic or version. If the first four bytes of the stream are
\* not 'ABOM' (or are not all there), or the fifth is not 0x01, load raises AbomError and
\* returns no container, whatever the other bytes are.
C11_BadMagicOrVersion ==
  (pc = "loaded" /\
     (\/ Len(file) < 5
      \/ file[1] # 65 \/ file[2] # 66 \/ file[3] # 79 \/ file[4] # 77
      \/ file[5] # 1))
    => (loaded.err = "AbomError" /\ loaded.bfs = <<>>)

\* A complete frame of a non-empty container whose version byte alone was changed has
\* been refused.
C11_Witness ==
  /\ pc = "loaded" /\ last.op = "load"
  /\ Len(file) > 15 /\ SubSeq(file, 1, 4) = <<65, 66, 79, 77>> /\ file[5] = 2
  /\ OnesOf("P") > 0
  /\ loaded.err = "AbomError"

\* C12: load fails cleanly on every structural error. For a stream shorter than the 15
\* header bytes, or with fewer payload bytes than its l field says, load raises AbomError.
C12_StructuralErrors ==
  (pc = "loaded" /\ (Len(file) < 15 \/ ShortPayload(file)))
    => loaded.err = "AbomError"

\* C13: provenance propagates through linking. After an object was compiled and then
\* linked, the ABOM written with the linked output contains every input that the object's
\* ABOM contains, the ABOM read back from the output contains it too, and a lookup of such
\* an input in it answers present.
C13_LinkKeepsProvenance ==
  (src = "Q" /\ pc \in {"dumped", "loaded"}) =>
    /\ \A x \in ValidInputs :
         ABOMContains(heap, bfs["P"], x) =>
           /\ ABOMContains(heap, bfs["Q"], x)
           /\ pc = "loaded" =>
                (loaded.err = "ok" /\ ABOMContains(loaded.bfs, Refs(loaded.bfs), x))
    /\ (last.op = "contains" /\ ABOMContains(heap, bfs["P"], last.x)) => last.ret = TRUE

\* abom-check has found, in the ABOM of a linked output, an input that only the object's
\* ABOM held before the link, the link having dependencies of its own.
C13_Witness ==
  /\ src = "Q" /\ pc = "loaded"
  /\ last.op = "contains" /\ last.ret = TRUE
  /\ ABOMContains(heap, bfs["P"], last.x)
  /\ Len(bfs["Q"]) >= 2
  /\ \E y \in ValidInputs : ABOMContains(heap, bfs["Q"], y) /\ ~ABOMContains(heap, bfs["P"], y)

\* C14: empty container serialization. Writing a container into which nothing was
\* inserted succeeds, the bytes written begin with 41 42 4F 4D 01 and a filter count of
\* 0 or 1, and the container loaded from them contains no input.
C14_EmptySerialization ==
  /\ (last.op \in {"dump", "dump_earliest"} /\ OnesOf("P") = 0) =>
       /\ last.err = "ok"
       /\ Len(file) >= 7
       /\ SubSeq(file, 1, 5) = MAGIC \o <<VERSION>>
       /\ UnpackH(SubSeq(file, 6, 7)) \in {0, 1}
  /\ (last.op \in {"load", "contains"} /\ OnesOf("P") = 0
        /\ file = ABOMDump(heap, bfs["P"], cfg["P"]).data) =>
       /\ loaded.err = "ok"
       /\ \A x \in Inputs : ~ABOMContains(loaded.bfs, Refs(loaded.bfs), x)
       /\ \A probes \in AllProbes(m, k) : ~AnyFilterHas(loaded.bfs, Refs(loaded.bfs), probes)

\* The same for the current revision alone, whose dump first appends one empty filter.
C14_EmptySerializationCurrent ==
  (last.op = "dump_earliest") \/ C14_EmptySerialization

\* C15: cross-profile decode. The stream the legacy dump writes for a container (length
\* in bits) and the stream the current dump writes for the same container (length in
\* bytes) are both accepted by a decoder, and it decodes both to containers with the same
\* number of filters and the same bit arrays.
C15_CrossProfileDecode ==
  (pc = "loaded") =>
    LET A == LegacyDump(Arrays(heap, bfs["P"]), cfg["P"])
        B == DumpArrays(Arrays(heap, bfs["P"]), cfg["P"])
        other == IF file = A THEN B ELSE A
        o == IF last.op = "load_legacy" THEN LegacyLoad(other) ELSE ABOMLoad(other)
    IN /\ loaded.err = "ok"
       /\ o.err = "ok"
       /\ Arrays(o.bfs, Refs(o.bfs)) = Arrays(loaded.bfs, Refs(loaded.bfs))

\* C16: every container operation runs to completion after a bounded number of steps. The
\* loop of a union, of any two containers and of a container with itself, visits no more
\* filters than its source held when it was called.
C16_UnionLoopBounded == (pc = "union") => (it.pos <= it.n0 + 1)

\* The same as a liveness property: a union that has been called returns.
C16_UnionTerminates == (pc = "union") ~> (pc = "build")

\* C17 (as stated): union is associative for every query. Whatever the probes of a query,
\* (P union Q) union R and P union (Q union R) give the same contains.
C17_UnionAssociativeAllQueries ==
  [][ (last'.op \in {"merge_left", "merge_right"} /\ last'.err = "ok") =>
        \A probes \in AllProbes(m, k) :
          AnyFilterHas(heap', bfs'["P"], probes)
            = \E r \in {Assoc(heap, bfs["P"], bfs["Q"], loaded.bfs, cfg["P"],
                               IF last'.op = "merge_left" THEN "right" ELSE "left")} :
                AnyFilterHas(r.heap, r.list, probes) ]_vars

\* C17 (amended): union is associative over the source items. Every query contained in
\* P, in Q or in R (every list of probes whose bits one of their filters has set) is
\* contained in (P union Q) union R and in P union (Q union R); both groupings succeed.
C17_UnionAssociativeOnItems ==
  [][ (last'.op \in {"merge_left", "merge_right"}) =>
        /\ last'.err = "ok"
        /\ \E r \in {Assoc(heap, bfs["P"], bfs["Q"], loaded.bfs, cfg["P"],
                             IF last'.op = "merge_left" THEN "right" ELSE "left")} :
           /\ r.err = "ok"
           /\ \A F \in Range(Filters("P")) \cup Range(Filters("Q")) \cup Range(loaded.bfs) :
              \A probes \in [1..k -> {b - 1 : b \in {c \in 1..m : F.A[c] = 1}}] :
                /\ AnyFilterHas(heap', bfs'["P"], probes)
                /\ AnyFilterHas(r.heap, r.list, probes) ]_vars

\* The three containers, each holding an item of its own, have been merged, and the two
\* groupings place the filters differently: the result has two filters.
C17_Witness ==
  /\ pc = "merged" /\ last.op = "merge_left" /\ last.err = "ok"
  /\ Len(bfs["P"]) = 2 /\ Len(bfs["Q"]) = 1 /\ Len(loaded.bfs) = 1
  /\ OnesOf("Q") = 2
  /\ Count(loaded.bfs[1].A) = 2
  /\ Count(heap[bfs["P"][1]].A) = 3 /\ Count(heap[bfs["P"][2]].A) = 2

\* C18: exclusive ownership. After every insert and union no filter object is held by both
\* containers, and an insert into one container leaves the filters of the other, and so
\* its contains results, as they were.
C18_ExclusiveOwnership ==
  [][ /\ \A i \in 1..Len(bfs'["P"]), j \in 1..Len(bfs'["Q"]) : bfs'["P"][i] # bfs'["Q"][j]
      /\ \A a \in Aboms, b \in Aboms :
           (a # b /\ last'.op = "insert" /\ last'.a = a) => Filters(b)' = Filters(b) ]_vars

\* C19: insertion rule (first fit). A successful insert(x) sets x's probe bits in exactly
\* one filter: the first filter, in container order, whose FPR before the call is strictly
\* below f, or, when no filter qualifies, a newly appended all-zero filter with the
\* container's (m, k). Every other filter keeps its bits and its place, and the number of
\* filters grows by at most one (by one or not at all, also when the insert fails).
C19_InsertFirstFit ==
  [][ \A a \in Aboms : (last'.op = "insert" /\ last'.a = a) =>
        \A old \in {Filters(a)} : \A new \in {Filters(a)'} :
        \A fit \in {{i \in 1..Len(old) : FprBelow(old[i])}} :
        \A at \in {IF fit = {} THEN Len(old) + 1 ELSE CHOOSE i \in fit : \A j \in fit : i <= j} :
        \A before \in {IF fit = {} THEN NewCBF(cfg[a].m, cfg[a].k) ELSE old[at]} :
           /\ Len(new) \in {Len(old), Len(old) + 1}
           /\ \A j \in 1..Len(old) : j # at => new[j] = old[j]
           /\ (last'.err = "ok") =>
                /\ Len(new) = (IF fit = {} THEN Len(old) + 1 ELSE Len(old))
                /\ new[at].m = before.m /\ new[at].k = before.k
                /\ \A probes \in {Range(CBFHash(before, last'.x).h)} :
                   \A b \in 1..before.m :
                     new[at].A[b] = (IF b - 1 \in probes THEN 1 ELSE before.A[b])
           /\ (last'.err # "ok") =>
                /\ \A j \in 1..Len(old) : new[j] = old[j]
                /\ Len(new) > Len(old) => Count(new[Len(new)].A) = 0 ]_vars

\* An insert has gone into the first of two filters that both had an FPR below f.
C19_Witness ==
  /\ last.op = "insert" /\ last.err = "ok" /\ last.a = "P"
  /\ last.oldLen = 2 /\ Len(bfs["P"]) = 2
  /\ Count(heap[bfs["P"][1]].A) = 3
  /\ Count(heap[bfs["P"][2]].A) = 2
  /\ FprBelow(heap[bfs["P"][2]])
  /\ CBFContains(heap[bfs["P"][1]], last.x) /\ ~CBFContains(heap[bfs["P"][2]], last.x)

\* C20: union placement rule. A union takes the source's filters in order, one per loop
\* iteration. The filter taken is OR-ed into the first slot of the destination, as earlier
\* iterations left it, whose tentative union with it has an FPR strictly below f; only when
\* no slot accepts is it appended at the end. All other slots stay as they were, so the
\* count grows by one exactly in the iterations where no slot accepted; a union of two
\* different containers returns when it has taken each of the source's filters once.
C20_UnionPlacement ==
  [][ /\ (last'.op = "union_step") =>
           \A a \in Aboms : (it.a = a) =>
             \A old \in {Filters(a)} : \A new \in {Filters(a)'} :
             \A bf \in {heap[bfs[it.b][it.pos]]} :
             \A acc \in {{i \in 1..Len(old) :
                            FprBelow([old[i] EXCEPT !.A = [b \in 1..bf.m |->
                                       IF old[i].A[b] = 1 \/ bf.A[b] = 1 THEN 1 ELSE 0]])}} :
               /\ it'.pos = it.pos + 1
               /\ IF acc = {}
                  THEN /\ Len(new) = Len(old) + 1
                       /\ new[Len(new)] = bf
                       /\ \A j \in 1..Len(old) : new[j] = old[j]
                  ELSE \A at \in {CHOOSE i \in acc : \A j \in acc : i <= j} :
                       /\ Len(new) = Len(old)
                       /\ \A b \in 1..bf.m :
                            new[at].A[b] = (IF old[at].A[b] = 1 \/ bf.A[b] = 1 THEN 1 ELSE 0)
                       /\ \A j \in 1..Len(old) : j # at => new[j] = old[j]
      /\ (pc = "union" /\ pc' = "build" /\ it.a # it.b) =>
           /\ last'.err = "ok"
           /\ it.pos = it.n0 + 1
           /\ Len(bfs[it.b]) = it.n0 ]_vars

\* An iteration has OR-ed a filter into the first of two slots that both accepted it, in a
\* destination of two filters, the source being another container.
C20_Witness ==
  /\ pc = "union" /\ last.op = "union_step" /\ last.ret = FALSE
  /\ it.a = "P" /\ it.b = "Q"
  /\ \E bf \in {heap[bfs["Q"][it.pos - 1]]} :
     \E i \in 1..Len(bfs["P"]), j \in 1..Len(bfs["P"]) :
       /\ i < j
       /\ Count(bf.A) > 0
       /\ FprBelow(heap[bfs["P"][i]])
       /\ CBFOr(heap[bfs["P"][i]], bf) = heap[bfs["P"][i]]
       /\ CBFOr(heap[bfs["P"][j]], bf) # heap[bfs["P"][j]]
       /\ FprBelow(CBFOr(heap[bfs["P"][j]], bf))

\* C21: union placement in the older revisions. A union there leaves the destination as
\* the placement rule says: a source filter that a slot accepts is merged into that slot and
\* is not also appended, and a filter is appended only when no slot accepted it.
C21_LegacyUnionPlacement ==
  [][ (last'.op = "union_legacy") =>
        \E r \in {ABOMUnion(heap, bfs["P"], cfg["P"], bfs["Q"], cfg["Q"])} :
          /\ last'.err = r.err
          /\ Arrays(heap', bfs'["P"]) = Arrays(r.heap, r.list) ]_vars

\* C22: in the pre-seeding revision, reading back what dump wrote for a container gives
\* a container with the same number of filters.
C22_LegacyRoundTripCount ==
  (pc = "loaded" /\ last.op = "load_legacy"
     /\ file = LegacyDump(Arrays(heap, bfs["P"]), cfg["P"]))
    => (loaded.err = "ok" /\ Len(loaded.bfs) = Len(bfs["P"]))

\* C23: in a container that has only ever been inserted into, every filter but the last
\* has FPR >= f; an insert into a container whose last filter has FPR >= f adds a filter,
\* and any other insert leaves the count and every filter but the last as they were.
C23_InsertOnlyAdmission ==
  [][ (last'.op = "insert" /\ pc' = "build") =>
        \A old \in {Filters("P")} : \A new \in {Filters("P")'} :
          /\ \A i \in 1..(Len(new) - 1) :
                (Count(new[i].A) ^ new[i].k) * F_DEN >= F_NUM * (new[i].m ^ new[i].k)
          /\ IF old = <<>>
                  \/ (Count(old[Len(old)].A) ^ old[Len(old)].k) * F_DEN
                       >= F_NUM * (old[Len(old)].m ^ old[Len(old)].k)
             THEN Len(new) = Len(old) + 1 /\ SubSeq(new, 1, Len(old)) = old
             ELSE Len(new) = Len(old)
                    /\ SubSeq(new, 1, Len(old) - 1) = SubSeq(old, 1, Len(old) - 1) ]_vars
\* An insert went to the second filter while the first had FPR >= f, and the second has
\* reached FPR >= f as well.
C23_Witness ==
  /\ last.op = "insert" /\ last.err = "ok" /\ pc = "build"
  /\ last.oldLen = 2 /\ Len(bfs["P"]) = 2
  /\ Count(heap[bfs["P"][1]].A) >= 4
  /\ Count(heap[bfs["P"][2]].A) = 4

\* C24: every filter object, constructed with or without an array, cloned or loaded, has
\* m a nonzero power of two and an array of exactly m bits; a construction that would give
\* anything else fails.
C24_CBFShape ==
  \A i \in 1..Len(loaded.bfs) :
    /\ loaded.bfs[i].m > 0 /\ \E e \in 0..30 : loaded.bfs[i].m = 2 ^ e
    /\ Len(loaded.bfs[i].A) = loaded.bfs[i].m

C26_SharedCdf ==
  [][ (last'.op = "load_full") => last'.oldLen = last.oldLen ]_vars

\* C27: an insert that raises leaves the container's filter list as it was, in length
\* and in bits, whatever the container held.
C27_FailedInsertNoChange ==
  [][ \A a \in Aboms :
        (last'.op = "insert" /\ last'.a = a /\ last'.err # "ok") =>
          Arrays(heap', bfs'[a]) = Arrays(heap, bfs[a]) ]_vars

\* C30: hash_bits of the text hash_hex printed for a file is the INDEX_BITS bits hash
\* returns for it, and hash_bits raises ValueError exactly when the text, with '0'
\* appended when its length is odd, does not decode to INDEX_BYTES bytes.
C30_HashTextRoundTrip ==
  [][ (last'.op = "hash_bits") =>
        \A t \in {last'.x.v} :
        \A padded \in {IF Len(t) % 2 = 1 THEN t \o <<0>> ELSE t} :
          /\ (last'.x = last.x) =>
                (last'.err = "ok" /\ Len(hb') = INDEX_BITS /\ hb' = hb
                   /\ hb' = SubSeq(BitsOfBytes(file), 1, INDEX_BITS))
          /\ (last'.err = "ValueError") <=>
                ~(FromHex(padded).ok /\ Len(FromHex(padded).bytes) = INDEX_BYTES) ]_vars
\* The text of a digest whose last four bits are not zero was read back.
C30_Witness ==
  /\ last.op = "hash_bits" /\ last.err = "ok"
  /\ Len(last.x.v) = 2 * INDEX_BYTES - 1
  /\ file[INDEX_BYTES] % 16 # 0
  /\ hb = SubSeq(BitsOfBytes(file), 1, INDEX_BITS)

\* C28: abom-check writes neither the binary nor <binary>.abom; when it extracts the
\* embedded section, it extracts it into its temporary file.
C28_CheckReadOnly ==
  [][ (last'.op = "check") =>
        /\ fs'.section = fs.section
        /\ fs'.sidecar = fs.sidecar
        /\ last'.b \in {"none", "temp"} ]_vars

\* C29: dump leaves the bits of every filter as they were and the list too, except that
\* an empty container gets exactly one all-zero filter; the other container is untouched
\* and contains(x) answers after the call what it answered before, for every x.
C29_DumpKeepsContent ==
  [][ \A a \in Aboms :
        (last'.op = "dump" /\ last'.a = a) =>
          \A old \in {Arrays(heap, bfs[a])} : \A new \in {Arrays(heap', bfs'[a])} :
            /\ new = IF old = <<>> THEN <<[i \in 1..cfg[a].m |-> 0]>> ELSE old
            /\ \A b \in Aboms \ {a} : Arrays(heap', bfs'[b]) = Arrays(heap, bfs[b])
            /\ \A x \in Inputs :
                 ABOMContains(heap', bfs'[a], x) <=> ABOMContains(heap, bfs[a], x) ]_vars
\* An empty container was written and holds one all-zero filter, while the other
\* container holds what was inserted into it.
C29_Witness ==
  /\ last.op = "dump" /\ last.oldLen = 0
  /\ Len(bfs[last.a]) = 1 /\ Count(heap[bfs[last.a][1]].A) = 0
  /\ \E b \in Aboms \ {last.a} : Len(bfs[b]) = 2

====
